---------------------------- MODULE Spec2Model ----------------------------
(***************************************************************************)
(* Model of src/src/ServerAutoShutdown.cpp: the recurring-shutdown module  *)
(* of an AzerothCore server.  ServerAutoShutdown::Init reads the           *)
(* configuration, computes the next shutdown time, and schedules one       *)
(* pre-announce task on a TaskScheduler; ServerAutoShutdown::OnUpdate      *)
(* advances that scheduler on every world tick.                            *)
(*                                                                         *)
(* Numbers.  time_t values are seconds; the local calendar is taken with a *)
(* fixed offset of zero and no daylight-saving change, so a calendar day   *)
(* is DAY seconds and day 0 is a Thursday.  A uint32 is written in two's   *)
(* complement: a value of 2^31 or more is written as the negative integer  *)
(* value - 2^32.  TLC's integers are 32 bits wide and stop on overflow, so *)
(* uint32 addition and subtraction are the integer operations, the         *)
(* unsigned order is U32Less, and a negative number is a wrapped value.    *)
(***************************************************************************)
EXTENDS Integers, Sequences, FiniteSets, TLC

VARIABLES
    isEnableModule,   \* ServerAutoShutdown::_isEnableModule
    shutdownMask,     \* ServerAutoShutdown::_shutdownMask
    tasks,            \* the pending tasks of the file-local TaskScheduler
    host,             \* sWorld's shutdown state
    events,           \* game events started through sGameEventMgr
    last,             \* the last handler that ran, and what it called
    plan,             \* the plan computed by the last Init that built one
    ticks,            \* OnUpdate calls since the last Init (bounded)
    since,            \* what happened since the last Init (see SinceInit)
    input,            \* the inputs of the single-call specifications
    result            \* the result of the calculator under CalcSpec

vars == <<isEnableModule, shutdownMask, tasks, host, events, last, plan, ticks,
          since, input, result>>

-----------------------------------------------------------------------------
(* Program constants (Common.h of the host, used at the lines named).      *)

MINUTE == 60
HOUR == 3600
DAY == 86400
WEEK == 604800

\* One second of a Seconds duration in the scheduler's milliseconds.
IN_MILLISECONDS == 1000

-----------------------------------------------------------------------------
(* Bounds of the model.                                                    *)

\* "now" ranges over the days 0..MaxDay (day 0 is a Thursday).
MaxDay == 7
\* OnUpdate calls explored after each Init.
MaxTicks == 3

-----------------------------------------------------------------------------
(* uint32 arithmetic, in the two's complement writing described above.     *)

\* a < b for two uint32 values.
U32Less(a, b) == IF (a < 0) = (b < 0) THEN a < b ELSE b < 0

\* uint32 a - b (line 164, 173, 194, 195): the difference modulo 2^32.
U32Sub(a, b) == a - b

-----------------------------------------------------------------------------
(* Calendar: Acore::Time::TimeBreakdown (localtime) and mktime.  The       *)
(* fields tm_year, tm_mon and tm_mday are kept as one day number, which    *)
(* mktime normalises exactly as it normalises an overflowing tm_mday.      *)

TimeBreakdown(t) ==
    [tm_days |-> t \div DAY,
     tm_hour |-> (t % DAY) \div HOUR,
     tm_min  |-> (t % HOUR) \div MINUTE,
     tm_sec  |-> t % MINUTE,
     tm_wday |-> ((t \div DAY) + 4) % 7]

mktime(tm) ==
    tm.tm_days * DAY + tm.tm_hour * HOUR + tm.tm_min * MINUTE + tm.tm_sec

-----------------------------------------------------------------------------
(* The next-occurrence calculators.                                        *)

GetNextResetTime_NoRoll(time, restartDays, restartHour, restartMinute, restartSecond) ==
    LET timeLocal == [TimeBreakdown(time) EXCEPT !.tm_hour = restartHour,
                                                 !.tm_min = restartMinute,
                                                 !.tm_sec = restartSecond]
        midnightLocal == mktime(timeLocal)
    IN  IF restartDays > 1 \/ midnightLocal < time
        THEN midnightLocal + DAY * restartDays
        ELSE midnightLocal

GetNextResetTime_OnlyIfPassed(time, restartDays, restartHour, restartMinute, restartSecond) ==
    LET timeLocal == [TimeBreakdown(time) EXCEPT !.tm_hour = restartHour,
                                                 !.tm_min = restartMinute,
                                                 !.tm_sec = restartSecond]
        midnightLocal == mktime(timeLocal)
    IN  IF midnightLocal <= time
        THEN midnightLocal + DAY * restartDays
        ELSE midnightLocal

GetNextResetTime(time, restartDays, restartHour, restartMinute, restartSecond) ==
    LET timeLocal == [TimeBreakdown(time) EXCEPT !.tm_hour = restartHour,
                                                 !.tm_min = restartMinute,
                                                 !.tm_sec = restartSecond]
        midnightLocal == mktime(timeLocal)
    IN  IF restartDays > 1 \/ midnightLocal <= time
        THEN midnightLocal + DAY * restartDays
        ELSE midnightLocal

GetNextWeekdayTime_StrictSeconds(now, weekday, restartHour, restartMinute, restartSecond) ==
    LET timeLocal == TimeBreakdown(now)
        currentWeekday == timeLocal.tm_wday
        daysUntil0 == (weekday - currentWeekday + 7) % 7
        passed ==
            \/ timeLocal.tm_hour > restartHour
            \/ (timeLocal.tm_hour = restartHour /\ timeLocal.tm_min > restartMinute)
            \/ (timeLocal.tm_hour = restartHour /\ timeLocal.tm_min = restartMinute
                /\ timeLocal.tm_sec > restartSecond)
        daysUntil == IF daysUntil0 = 0 /\ passed THEN 7 ELSE daysUntil0
    IN  mktime([timeLocal EXCEPT !.tm_days = @ + daysUntil,
                                 !.tm_hour = restartHour,
                                 !.tm_min = restartMinute,
                                 !.tm_sec = restartSecond])

GetNextWeekdayTime_MinuteAlone(now, weekday, restartHour, restartMinute, restartSecond) ==
    LET timeLocal == TimeBreakdown(now)
        currentWeekday == timeLocal.tm_wday
        daysUntil0 == (weekday - currentWeekday + 7) % 7
        passed ==
            \/ timeLocal.tm_hour > restartHour
            \/ timeLocal.tm_min > restartMinute
            \/ (timeLocal.tm_hour = restartHour /\ timeLocal.tm_min = restartMinute
                /\ timeLocal.tm_sec >= restartSecond)
        daysUntil == IF daysUntil0 = 0 /\ passed THEN 7 ELSE daysUntil0
    IN  mktime([timeLocal EXCEPT !.tm_days = @ + daysUntil,
                                 !.tm_hour = restartHour,
                                 !.tm_min = restartMinute,
                                 !.tm_sec = restartSecond])

GetNextWeekdayTime(now, weekday, restartHour, restartMinute, restartSecond) ==
    LET timeLocal == TimeBreakdown(now)
        currentWeekday == timeLocal.tm_wday
        daysUntil0 == (weekday - currentWeekday + 7) % 7
        passed ==
            \/ timeLocal.tm_hour > restartHour
            \/ (timeLocal.tm_hour = restartHour /\ timeLocal.tm_min > restartMinute)
            \/ (timeLocal.tm_hour = restartHour /\ timeLocal.tm_min = restartMinute
                /\ timeLocal.tm_sec >= restartSecond)
        daysUntil == IF daysUntil0 = 0 /\ passed THEN 7 ELSE daysUntil0
    IN  mktime([timeLocal EXCEPT !.tm_days = @ + daysUntil,
                                 !.tm_hour = restartHour,
                                 !.tm_min = restartMinute,
                                 !.tm_sec = restartSecond])

-----------------------------------------------------------------------------
(* Strings.  A string is a sequence of one-character strings, so that      *)
(* Acore::Tokenize and Acore::StringTo<T> do the work they do in the code. *)

DigitChars == {"0", "1", "2", "3", "4", "5", "6", "7", "8", "9"}

DigitValue(c) ==
    CASE c = "0" -> 0 [] c = "1" -> 1 [] c = "2" -> 2 [] c = "3" -> 3
      [] c = "4" -> 4 [] c = "5" -> 5 [] c = "6" -> 6 [] c = "7" -> 7
      [] c = "8" -> 8 [] c = "9" -> 9

RECURSIVE TokenizeFrom(_, _, _, _)
TokenizeFrom(str, sep, i, cur) ==
    IF i > Len(str)
    THEN IF cur = <<>> THEN <<>> ELSE <<cur>>
    ELSE IF str[i] = sep
         THEN (IF cur = <<>> THEN <<>> ELSE <<cur>>) \o TokenizeFrom(str, sep, i + 1, <<>>)
         ELSE TokenizeFrom(str, sep, i + 1, Append(cur, str[i]))

\* Acore::Tokenize(str, sep, keepEmpty = false): empty tokens are dropped.
Tokenize(str, sep) == TokenizeFrom(str, sep, 1, <<>>)

RECURSIVE DecimalValue(_)
DecimalValue(s) ==
    IF s = <<>> THEN 0
    ELSE 10 * DecimalValue(SubSeq(s, 1, Len(s) - 1)) + DigitValue(s[Len(s)])

nullopt == [has_value |-> FALSE, value |-> 0]

\* Acore::StringTo<T> for an unsigned T with largest value `max`: std::from_chars
\* over the whole token, base 10; no sign, no blank, no empty token.
StringTo(token, max) ==
    IF /\ token # <<>>
       /\ \A i \in 1..Len(token) : token[i] \in DigitChars
       /\ DecimalValue(token) <= max
    THEN [has_value |-> TRUE, value |-> DecimalValue(token)]
    ELSE nullopt

UINT8_MAX == 255

StringToUint8(token) == StringTo(token, UINT8_MAX)

\* The lambda CheckTime({0, 1, 2}) of Init.
CheckTime(tokens) == \A i \in 1..3 : StringToUint8(tokens[i]).has_value

-----------------------------------------------------------------------------
(* The plan computed by Init (lines 119-203).                              *)

WeeklyMode_UpTo7(weekday) == weekday >= 0 /\ weekday <= 7

\* Lines 128-141: weekly mode for a weekday in 0..6, else periodic mode.
WeeklyMode(weekday) == weekday >= 0 /\ weekday <= 6

\* Lines 134 and 143: the EveryDays range test, on a uint32.
DaysOutOfRange(restartDays) == U32Less(restartDays, 1) \/ U32Less(365, restartDays)

FirstResetTime(nowTime, weekday, restartDays, restartHour, restartMinute, restartSecond) ==
    IF WeeklyMode(weekday)
    THEN GetNextWeekdayTime(nowTime, weekday, restartHour, restartMinute, restartSecond)
    ELSE GetNextResetTime(nowTime, restartDays, restartHour, restartMinute, restartSecond)

RangeCheck_NoHour(restartDays, restartHour, restartMinute, restartSecond) ==
    IF DaysOutOfRange(restartDays) THEN FALSE
    ELSE IF restartMinute >= 60 THEN FALSE
    ELSE IF restartSecond >= 60 THEN FALSE
    ELSE TRUE

\* Lines 143-162: the value of _isEnableModule after the range checks.
RangeCheck(restartDays, restartHour, restartMinute, restartSecond) ==
    IF DaysOutOfRange(restartDays) THEN FALSE
    ELSE IF restartHour > 23 THEN FALSE
    ELSE IF restartMinute >= 60 THEN FALSE
    ELSE IF restartSecond >= 60 THEN FALSE
    ELSE TRUE

NextPeriod_None(nextResetTime, weekday, restartDays) == nextResetTime

NextPeriod_AlwaysDays(nextResetTime, weekday, restartDays) ==
    nextResetTime + DAY * restartDays

\* Lines 169-172: one period after the occurrence that is too close.
NextPeriod(nextResetTime, weekday, restartDays) ==
    IF WeeklyMode(weekday)
    THEN nextResetTime + WEEK
    ELSE nextResetTime + DAY * restartDays

ClampPreAnnounce_AtDay(preAnnounceSeconds) ==
    IF U32Less(preAnnounceSeconds, DAY) THEN preAnnounceSeconds ELSE HOUR

\* Lines 187-192.
ClampPreAnnounce(preAnnounceSeconds) ==
    IF U32Less(DAY, preAnnounceSeconds) THEN HOUR ELSE preAnnounceSeconds

PreAnnounce_KeepsDelay(nowTime, nextResetTime, diffToShutdown, preAnnounceSeconds) ==
    [timeToPreAnnounce |-> U32Sub(nextResetTime, preAnnounceSeconds),
     diffToPreAnnounce |-> U32Sub(U32Sub(nextResetTime, preAnnounceSeconds), nowTime),
     preAnnounceSeconds |->
         IF U32Less(diffToShutdown, preAnnounceSeconds) THEN diffToShutdown
         ELSE preAnnounceSeconds]

PreAnnounce_NoCollapse(nowTime, nextResetTime, diffToShutdown, preAnnounceSeconds) ==
    [timeToPreAnnounce |-> U32Sub(nextResetTime, preAnnounceSeconds),
     diffToPreAnnounce |-> U32Sub(U32Sub(nextResetTime, preAnnounceSeconds), nowTime),
     preAnnounceSeconds |-> preAnnounceSeconds]

\* Lines 194-203: when, and with what countdown, the pre-announce fires.
PreAnnounce(nowTime, nextResetTime, diffToShutdown, preAnnounceSeconds) ==
    LET timeToPreAnnounce == U32Sub(nextResetTime, preAnnounceSeconds)
        diffToPreAnnounce == U32Sub(timeToPreAnnounce, nowTime)
    IN  IF U32Less(diffToShutdown, preAnnounceSeconds)
        THEN [timeToPreAnnounce |-> nowTime + 1,
              diffToPreAnnounce |-> 1,
              preAnnounceSeconds |-> diffToShutdown]
        ELSE [timeToPreAnnounce |-> timeToPreAnnounce,
              diffToPreAnnounce |-> diffToPreAnnounce,
              preAnnounceSeconds |-> preAnnounceSeconds]

\* Lines 119-203 for parsed inputs.  firstResetTime and configuredPreAnnounce
\* are the values of nextResetTime and preAnnounceSeconds before they are
\* reassigned (lines 130/140 and 187-192).
ShutdownPlan(nowTime, weekday, restartDays, restartHour, restartMinute, restartSecond, configPreAnnounce) ==
    LET firstResetTime == FirstResetTime(nowTime, weekday, restartDays,
                                         restartHour, restartMinute, restartSecond)
        firstDiff == U32Sub(firstResetTime, nowTime)
        tooClose == U32Less(firstDiff, 10)
        nextResetTime ==
            IF tooClose THEN NextPeriod(firstResetTime, weekday, restartDays)
            ELSE firstResetTime
        diffToShutdown ==
            IF tooClose THEN U32Sub(nextResetTime, nowTime) ELSE firstDiff
        clamped == ClampPreAnnounce(configPreAnnounce)
        pre == PreAnnounce(nowTime, nextResetTime, diffToShutdown, clamped)
    IN  [nowTime |-> nowTime,
         weekday |-> weekday,
         restartDays |-> restartDays,
         firstResetTime |-> firstResetTime,
         nextResetTime |-> nextResetTime,
         diffToShutdown |-> diffToShutdown,
         configuredPreAnnounce |-> clamped,
         timeToPreAnnounce |-> pre.timeToPreAnnounce,
         diffToPreAnnounce |-> pre.diffToPreAnnounce,
         preAnnounceSeconds |-> pre.preAnnounceSeconds]

NoPlan == [nowTime |-> -1]

-----------------------------------------------------------------------------
(* Collaborators: the TaskScheduler, the world's shutdown control and the  *)
(* game event manager, by the interface Init and OnUpdate use.             *)

\* A delay too long for any run of the model: what Seconds(d) is for a uint32
\* d of 2^31 or more.
FarFuture == 2147483647

Seconds_AsMillis(d) ==
    [s |-> d \div IN_MILLISECONDS, ms |-> d % IN_MILLISECONDS]

\* Seconds(diffToPreAnnounce), line 222, as a remaining delay.
Seconds(d) == [s |-> IF d < 0 THEN FarFuture ELSE d, ms |-> 0]

\* The remaining delay `d` after `milliseconds` more have elapsed.
Elapse(d, milliseconds) ==
    LET s1 == d.s - (milliseconds \div IN_MILLISECONDS)
        m1 == d.ms - (milliseconds % IN_MILLISECONDS)
    IN  IF m1 < 0 THEN [s |-> s1 - 1, ms |-> m1 + IN_MILLISECONDS]
        ELSE [s |-> s1, ms |-> m1]

Due(d) == d.s < 0 \/ (d.s = 0 /\ d.ms = 0)

\* TaskScheduler::CancelAll.
CancelAll(pending) == <<>>

\* TaskScheduler::Schedule(delay, callback); `captured` is the lambda's
\* by-value capture with the plan that made it.
Schedule(pending, delay, captured) ==
    Append(pending, [remaining |-> delay,
                     preAnnounceSeconds |-> captured.preAnnounceSeconds,
                     plan |-> captured])

\* TaskScheduler::Update(milliseconds): every task's delay elapses; the due
\* ones are taken out, in order, to be run.
SchedulerUpdate(pending, milliseconds) ==
    LET aged == [i \in 1..Len(pending) |->
                    [pending[i] EXCEPT !.remaining = Elapse(@, milliseconds)]]
    IN  [pending |-> SelectSeq(aged, LAMBDA t : ~Due(t.remaining)),
         fired   |-> SelectSeq(aged, LAMBDA t : Due(t.remaining))]

NoShutdown == [inProgress |-> FALSE, delay |-> 0, mask |-> "none", exitCode |-> "none"]

\* World::ShutdownCancel.
ShutdownCancel(h) == NoShutdown

\* World::ShutdownServ(time, options, exitcode).
ShutdownServ(h, time, options, exitcode) ==
    [inProgress |-> TRUE, delay |-> time, mask |-> options, exitCode |-> exitcode]

Call(fn, args) == [fn |-> fn, args |-> args]

-----------------------------------------------------------------------------
(* ServerAutoShutdown::StartPersistentGameEvents (lines 243-261).  Every   *)
(* token of the configured list is a decimal number of at most 9 digits:   *)
(* the code dereferences StringTo<uint32> without a test.                  *)

StringToUint32(token) ==
    IF /\ token # <<>>
       /\ Len(token) <= 9
       /\ \A i \in 1..Len(token) : token[i] \in DigitChars
    THEN [has_value |-> TRUE, value |-> DecimalValue(token)]
    ELSE nullopt

StartedEventIds(eventList) ==
    LET tokens == Tokenize(eventList, " ")
    IN  [i \in 1..Len(tokens) |-> StringToUint32(tokens[i]).value]

-----------------------------------------------------------------------------
(* ServerAutoShutdown::Init (lines 85-232).                                *)

Reschedule_NoCancel(pending, p) ==
    Schedule(pending, Seconds(p.diffToPreAnnounce), p)

\* Lines 180 and 222: the scheduler's tasks after Init cancelled them all and
\* scheduled the pre-announce of plan p.
Reschedule(pending, p) ==
    Schedule(CancelAll(pending), Seconds(p.diffToPreAnnounce), p)

InitPlan_KeepsEarlierTime(cfg, nowTime, weekday, restartDays, restartHour, restartMinute, restartSecond) ==
    LET p == ShutdownPlan(nowTime, weekday, restartDays, restartHour,
                          restartMinute, restartSecond, cfg.PreAnnounceSeconds)
    IN  IF plan # NoPlan /\ plan.nextResetTime > nowTime
        THEN [p EXCEPT !.nextResetTime = plan.nextResetTime]
        ELSE p

\* Lines 119-203: the plan of one Init call, from its configuration and
\* time(nullptr) alone.
InitPlan(cfg, nowTime, weekday, restartDays, restartHour, restartMinute, restartSecond) ==
    ShutdownPlan(nowTime, weekday, restartDays, restartHour,
                 restartMinute, restartSecond, cfg.PreAnnounceSeconds)

ShutdownMaskFor_AlwaysRestart(action) == "SHUTDOWN_MASK_RESTART"

\* Lines 211-219.
ShutdownMaskFor(action) ==
    IF action = "shutdown" THEN "SHUTDOWN_MASK_IDLE" ELSE "SHUTDOWN_MASK_RESTART"

HostAfterInit_NoCancel(h) == h

\* Line 181: Init cancels a shutdown in progress on the host.
HostAfterInit(h) == ShutdownCancel(h)

\* The early returns of lines 89-90, 95-100, 112-117 and 134-139.
InitReturn(cfg, nowTime) ==
    /\ isEnableModule' = FALSE
    /\ last' = [op |-> "Init", cfg |-> cfg, nowTime |-> nowTime,
                enabledBefore |-> isEnableModule, pendingBefore |-> Len(tasks),
                shutdownBefore |-> host.inProgress,
                calls |-> <<>>]
    /\ UNCHANGED <<shutdownMask, tasks, host, events, plan>>

\* Lines 143-231, reached with three uint8 tokens.
InitArm(cfg, nowTime, weekday, restartDays, restartHour, restartMinute, restartSecond) ==
    LET p == InitPlan(cfg, nowTime, weekday, restartDays, restartHour,
                      restartMinute, restartSecond)
        ids == StartedEventIds(cfg.StartEvents)
    IN  /\ isEnableModule' = RangeCheck(restartDays, restartHour, restartMinute, restartSecond)
        /\ tasks' = Reschedule(tasks, p)
        /\ host' = HostAfterInit(host)
        /\ events' = events \cup {ids[i] : i \in 1..Len(ids)}
        /\ shutdownMask' = ShutdownMaskFor(cfg.Action)
        /\ plan' = p
        /\ last' = [op |-> "Init", cfg |-> cfg, nowTime |-> nowTime,
                    enabledBefore |-> isEnableModule, pendingBefore |-> Len(tasks),
                    shutdownBefore |-> host.inProgress,
                    calls |-> <<Call("CancelAll", <<>>), Call("ShutdownCancel", <<>>)>>
                              \o [i \in 1..Len(ids) |-> Call("StartEvent", <<ids[i]>>)]
                              \o <<Call("Schedule", <<p.diffToPreAnnounce>>)>>]

ServerAutoShutdownInit(cfg, nowTime) ==
    LET tokens == Tokenize(cfg.Time, ":")
    IN  IF ~cfg.Enabled THEN InitReturn(cfg, nowTime)
        ELSE IF Len(tokens) # 3 THEN InitReturn(cfg, nowTime)
        ELSE IF ~CheckTime(tokens) THEN InitReturn(cfg, nowTime)
        ELSE IF ~WeeklyMode(cfg.Weekday) /\ DaysOutOfRange(cfg.EveryDays)
             THEN InitReturn(cfg, nowTime)
        ELSE InitArm(cfg, nowTime, cfg.Weekday, cfg.EveryDays,
                     StringToUint8(tokens[1]).value,
                     StringToUint8(tokens[2]).value,
                     StringToUint8(tokens[3]).value)

-----------------------------------------------------------------------------
(* ServerAutoShutdown::OnUpdate (lines 234-241) and the scheduled lambda   *)
(* (lines 222-231).                                                        *)

RECURSIVE RunCallbacks(_, _)
\* The host state after the lambdas of the fired tasks ran, in order.
RunCallbacks(fired, h) ==
    IF fired = <<>> THEN h
    ELSE RunCallbacks(Tail(fired),
                      ShutdownServ(h, Head(fired).preAnnounceSeconds, shutdownMask,
                                   "SHUTDOWN_EXIT_CODE"))

RECURSIVE CallbackCalls(_)
CallbackCalls(fired) ==
    IF fired = <<>> THEN <<>>
    ELSE <<Call("SendServerMessage", <<Head(fired).preAnnounceSeconds>>),
           Call("ShutdownServ", <<Head(fired).preAnnounceSeconds, shutdownMask,
                                  "SHUTDOWN_EXIT_CODE">>)>>
         \o CallbackCalls(Tail(fired))

OnUpdate_Always(diff) ==
    LET r == SchedulerUpdate(tasks, diff)
    IN  /\ tasks' = r.pending
        /\ host' = RunCallbacks(r.fired, host)
        /\ last' = [op |-> "OnUpdate", diff |-> diff, enabled |-> isEnableModule,
                    calls |-> <<Call("Update", <<diff>>)>> \o CallbackCalls(r.fired)]
        /\ UNCHANGED <<isEnableModule, shutdownMask, events, plan>>

OnUpdate(diff) ==
    IF ~isEnableModule
    THEN /\ last' = [op |-> "OnUpdate", diff |-> diff, enabled |-> isEnableModule,
                     calls |-> <<>>]
         /\ UNCHANGED <<isEnableModule, shutdownMask, tasks, host, events, plan>>
    ELSE LET r == SchedulerUpdate(tasks, diff)
         IN  /\ tasks' = r.pending
             /\ host' = RunCallbacks(r.fired, host)
             /\ last' = [op |-> "OnUpdate", diff |-> diff, enabled |-> isEnableModule,
                         calls |-> <<Call("Update", <<diff>>)>> \o CallbackCalls(r.fired)]
             /\ UNCHANGED <<isEnableModule, shutdownMask, events, plan>>

-----------------------------------------------------------------------------
(* Inputs: configurations (the options Init reads through sConfigMgr) and  *)
(* values of time(nullptr).                                                *)

DigitChar(d) == CHOOSE c \in DigitChars : DigitValue(c) = d

TwoDigits(n) == <<DigitChar(n \div 10), DigitChar(n % 10)>>

\* "HH:MM:SS" for numbers below 100.
TimeString(h, m, s) ==
    TwoDigits(h) \o <<":">> \o TwoDigits(m) \o <<":">> \o TwoDigits(s)

\* Seconds since the epoch of day `d` at h:m:s.
At(d, h, m, s) == d * DAY + h * HOUR + m * MINUTE + s

\* Valid times of day: the targets of the calculators.
Targets == {<<h, m, s>> : h \in {0, 4, 23}, m \in {0, 59}, s \in {0, 59}}

\* How far "now" is from a target's time of day.
Offsets == {-3600, -10, -9, -1, 0, 1}

Nows ==
    {d * DAY + ((At(0, t[1], t[2], t[3]) + o) % DAY) :
        d \in 0..MaxDay, t \in Targets, o \in Offsets}

\* The defaults of the options (lines 87, 92, 119, 120, 187, 211, 245).
DefaultConfig ==
    [Enabled |-> FALSE,
     Time |-> TimeString(4, 0, 0),
     Weekday |-> -1,
     EveryDays |-> 1,
     PreAnnounceSeconds |-> HOUR,
     Action |-> "restart",
     StartEvents |-> <<>>]

EnabledConfig == [DefaultConfig EXCEPT !.Enabled = TRUE]

\* Time strings that do not parse: two tokens, four tokens, a token that is
\* no number, a token above 255.
UnparsedTimes ==
    {<<"0", "4", ":", "0", "0">>,
     TimeString(4, 0, 0) \o <<":", "0", "0">>,
     <<"0", "4", ":", "0", "0", ":", "x", "x">>,
     <<"2", "5", "6", ":", "0", "0", ":", "0", "0">>}

\* The configurations of the module's runs: disabled, unparsed and
\* out-of-range ones in both recurrence modes, and valid ones.
Configs ==
    {DefaultConfig}
    \cup {[EnabledConfig EXCEPT !.Time = t, !.Weekday = w, !.EveryDays = d] :
            t \in {TimeString(4, 0, 0), TimeString(25, 0, 0),
                   <<"0", "4", ":", "0", "0">>,
                   <<"0", "4", ":", "0", "0", ":", "x", "x">>},
            w \in {-1, 4}, d \in {0, 1}}
    \cup {[EnabledConfig EXCEPT !.Time = t] :
            t \in {TimeString(4, 60, 0), TimeString(4, 0, 60)} \cup UnparsedTimes}
    \cup {[EnabledConfig EXCEPT !.Weekday = w, !.EveryDays = 366] : w \in {-1, 4}}
    \cup {[EnabledConfig EXCEPT !.PreAnnounceSeconds = 0, !.Action = "shutdown",
                                !.StartEvents = <<"1", "7">>],
          [EnabledConfig EXCEPT !.PreAnnounceSeconds = 90000],
          [EnabledConfig EXCEPT !.Action = "shutdown"],
          [EnabledConfig EXCEPT !.Action = "reboot"]}

\* Thursday (day 0) half an hour before 04:00:00, and five seconds before.
RunNows == {At(0, 3, 30, 0), At(0, 3, 59, 55)}

\* OnUpdate's diff, in milliseconds.
Deltas == {500, HOUR * IN_MILLISECONDS, WEEK * IN_MILLISECONDS}

\* The configurations of the plan builder's single calls.
PlanConfigs ==
    {[EnabledConfig EXCEPT !.Time = t, !.Weekday = w, !.EveryDays = d,
                           !.PreAnnounceSeconds = p] :
        t \in {TimeString(4, 0, 0), TimeString(23, 59, 59), TimeString(25, 0, 0),
               TimeString(4, 60, 0), TimeString(4, 0, 60)} \cup UnparsedTimes,
        w \in {-1, 4, 7}, d \in {0, 1, 2, 366}, p \in {0, HOUR, DAY, 90000}}

\* The periods and weekdays of the calculators' single calls.
CalcDays == {1, 2, 3, 365}
CalcWeekdays == 0..6

NoInput == [fn |-> "none"]
NoResult == -1

-----------------------------------------------------------------------------
(* The module's runs: Init at start-up and on every configuration reload,  *)
(* OnUpdate on every world tick.                                           *)

\* A duration [s, ms] with `milliseconds` more.
AddMillis(d, milliseconds) ==
    LET m1 == d.ms + (milliseconds % IN_MILLISECONDS)
    IN  [s  |-> d.s + (milliseconds \div IN_MILLISECONDS) + (m1 \div IN_MILLISECONDS),
         ms |-> m1 % IN_MILLISECONDS]

\* How many calls of `fn` a handler made.
CallsOf(calls, fn) == Cardinality({i \in 1..Len(calls) : calls[i].fn = fn})

\* Before any Init: nothing elapsed, nothing fired, no configuration armed.
NothingSince ==
    [elapsed |-> [s |-> 0, ms |-> 0], fired |-> 0, armedCfg |-> [Action |-> "none"]]

\* `since` after an Init with configuration cfg that made `calls`: the
\* elapsed time and the firings start over; armedCfg is the configuration of
\* the last Init that reached Schedule.
SinceInit(cfg, calls) ==
    [elapsed |-> [s |-> 0, ms |-> 0],
     fired |-> 0,
     armedCfg |-> IF CallsOf(calls, "Schedule") > 0 THEN cfg ELSE since.armedCfg]

\* `since` after an OnUpdate(diff) that made `calls`.
SinceUpdate(diff, calls) ==
    [since EXCEPT !.elapsed = AddMillis(@, diff),
                  !.fired = @ + CallsOf(calls, "ShutdownServ")]

\* The singleton of ServerAutoShutdown::instance() before its first Init.
Constructed ==
    /\ isEnableModule = FALSE
    /\ shutdownMask \in {"SHUTDOWN_MASK_IDLE", "SHUTDOWN_MASK_RESTART"}
    /\ tasks = <<>>
    /\ host = NoShutdown
    /\ events = {}
    /\ last = [op |-> "none"]
    /\ plan = NoPlan
    /\ ticks = 0
    /\ since = NothingSince

Init ==
    /\ Constructed
    /\ input = NoInput
    /\ result = NoResult

InitStep ==
    \E cfg \in Configs, nowTime \in RunNows :
        /\ ServerAutoShutdownInit(cfg, nowTime)
        /\ ticks' = 0
        /\ since' = SinceInit(cfg, last'.calls)
        /\ UNCHANGED <<input, result>>

UpdateStep ==
    \E diff \in Deltas :
        /\ ticks < MaxTicks
        /\ OnUpdate(diff)
        /\ ticks' = ticks + 1
        /\ since' = SinceUpdate(diff, last'.calls)
        /\ UNCHANGED <<input, result>>

Next == InitStep \/ UpdateStep

Spec == Init /\ [][Next]_vars

-----------------------------------------------------------------------------
(* One call of Init on a fresh module, for every configuration and time.   *)

PlanInit ==
    /\ Constructed
    /\ \E c \in PlanConfigs, n \in Nows :
          input = [fn |-> "Init", cfg |-> c, nowTime |-> n]
    /\ result = NoResult

PlanStep ==
    /\ last.op = "none"
    /\ ServerAutoShutdownInit(input.cfg, input.nowTime)
    /\ since' = SinceInit(input.cfg, last'.calls)
    /\ UNCHANGED <<ticks, input, result>>

PlanNext == PlanStep

PlanSpec == PlanInit /\ [][PlanNext]_vars

-----------------------------------------------------------------------------
(* One call of a calculator.                                               *)

CalcInit ==
    /\ Constructed
    /\ \E n \in Nows, t \in Targets :
          \/ \E d \in CalcDays :
                input = [fn |-> "GetNextResetTime", nowTime |-> n, param |-> d,
                         hour |-> t[1], minute |-> t[2], second |-> t[3]]
          \/ \E w \in CalcWeekdays :
                input = [fn |-> "GetNextWeekdayTime", nowTime |-> n, param |-> w,
                         hour |-> t[1], minute |-> t[2], second |-> t[3]]
    /\ result = NoResult

CallGetNextResetTime ==
    /\ input.fn = "GetNextResetTime"
    /\ result = NoResult
    /\ result' = GetNextResetTime(input.nowTime, input.param,
                                  input.hour, input.minute, input.second)
    /\ UNCHANGED <<isEnableModule, shutdownMask, tasks, host, events, last, plan,
                   ticks, since, input>>

CallGetNextWeekdayTime ==
    /\ input.fn = "GetNextWeekdayTime"
    /\ result = NoResult
    /\ result' = GetNextWeekdayTime(input.nowTime, input.param,
                                    input.hour, input.minute, input.second)
    /\ UNCHANGED <<isEnableModule, shutdownMask, tasks, host, events, last, plan,
                   ticks, since, input>>

CalcNext == CallGetNextResetTime \/ CallGetNextWeekdayTime

CalcSpec == CalcInit /\ [][CalcNext]_vars

-----------------------------------------------------------------------------
(* Properties of the calculators, under CalcSpec.                          *)

CalledWith(fn) == input.fn = fn /\ result # NoResult

\* The day number of "now", and the target time of day on day d.
Today == input.nowTime \div DAY
TargetOn(d) == At(d, input.hour, input.minute, input.second)

\* The result has exactly the time of day H:M:S.
ResultAtTarget ==
    LET r == TimeBreakdown(result)
    IN  r.tm_hour = input.hour /\ r.tm_min = input.minute /\ r.tm_sec = input.second

\* C8: GetNextResetTime with restartDays = 1 returns today at H:M:S when that
\* instant is strictly after now, otherwise the following day at H:M:S; the
\* result is strictly after now and at most one day after now.
C8_DailyNextReset ==
    (CalledWith("GetNextResetTime") /\ input.param = 1) =>
        /\ ResultAtTarget
        /\ TimeBreakdown(result).tm_days =
              IF TargetOn(Today) > input.nowTime THEN Today ELSE Today + 1
        /\ result > input.nowTime
        /\ result <= input.nowTime + DAY

\* C8's case at its boundary: the target instant is now, the result is the
\* same time of day tomorrow.
C8_Witness ==
    /\ CalledWith("GetNextResetTime")
    /\ input.param = 1
    /\ TargetOn(Today) = input.nowTime
    /\ result = input.nowTime + DAY

\* C9: GetNextResetTime with restartDays in 2..365 returns today's date at
\* H:M:S plus restartDays days, whether or not H:M:S has passed today.
C9_MultiDayNextReset ==
    (CalledWith("GetNextResetTime") /\ input.param \in 2..365) =>
        result = TargetOn(Today) + input.param * DAY

\* C9's case with the target still ahead today and the longest period.
C9_Witness ==
    /\ CalledWith("GetNextResetTime")
    /\ input.param = 365
    /\ TargetOn(Today) > input.nowTime
    /\ result = TargetOn(Today + 365)

\* C10: GetNextWeekdayTime returns a time strictly after now, at most 7 days
\* after now, on the requested weekday, at exactly H:M:S.
C10_NextWeekdayInRange ==
    CalledWith("GetNextWeekdayTime") =>
        /\ result > input.nowTime
        /\ result <= input.nowTime + 7 * DAY
        /\ TimeBreakdown(result).tm_wday = input.param
        /\ ResultAtTarget

\* C10's case at its boundary: now is the requested weekday at exactly H:M:S,
\* the result is seven days later.
C10_Witness ==
    /\ CalledWith("GetNextWeekdayTime")
    /\ TimeBreakdown(input.nowTime).tm_wday = input.param
    /\ TargetOn(Today) = input.nowTime
    /\ result = input.nowTime + 7 * DAY

-----------------------------------------------------------------------------
(* Properties of the plan Init builds, under PlanSpec.                     *)

\* The last handler was an Init that went on to build and schedule a plan.
PlanBuilt == last.op = "Init" /\ last.calls # <<>>

\* One full period of the plan's recurrence mode.
FullPeriod == IF plan.weekday \in 0..6 THEN 7 * DAY ELSE plan.restartDays * DAY

\* C5: if the first computed occurrence is less than 10 seconds after now,
\* nextShutdownAt is that occurrence plus exactly one full period (7 days in
\* weekly mode, everyDays days in periodic mode) and secondsUntilShutdown is
\* recomputed from it; otherwise the first occurrence is used unchanged.
C5_TooCloseAdvancesOnePeriod ==
    PlanBuilt =>
        IF plan.firstResetTime - plan.nowTime < 10
        THEN /\ plan.nextResetTime = plan.firstResetTime + FullPeriod
             /\ plan.diffToShutdown = plan.nextResetTime - plan.nowTime
        ELSE /\ plan.nextResetTime = plan.firstResetTime
             /\ plan.diffToShutdown = plan.firstResetTime - plan.nowTime

\* C5's case: weekly mode, nine seconds before the target, advanced a week.
C5_Witness ==
    /\ PlanBuilt
    /\ plan.weekday \in 0..6
    /\ plan.firstResetTime - plan.nowTime = 9
    /\ plan.nextResetTime = plan.firstResetTime + 7 * DAY
    /\ plan.diffToShutdown = 7 * DAY + 9

\* C6: if secondsUntilShutdown < preAnnounceSeconds (after clamping), then
\* effectivePreAnnounceSeconds = secondsUntilShutdown and the task is
\* scheduled with a delay of 1 second; otherwise effectivePreAnnounceSeconds
\* = preAnnounceSeconds and the delay is secondsUntilShutdown minus
\* preAnnounceSeconds.
C6_CollapsedPreAnnounce ==
    PlanBuilt =>
        /\ Len(tasks) = 1
        /\ tasks[1].remaining = [s |-> plan.diffToPreAnnounce, ms |-> 0]
        /\ tasks[1].preAnnounceSeconds = plan.preAnnounceSeconds
        /\ IF plan.diffToShutdown < plan.configuredPreAnnounce
           THEN /\ plan.preAnnounceSeconds = plan.diffToShutdown
                /\ plan.diffToPreAnnounce = 1
           ELSE /\ plan.preAnnounceSeconds = plan.configuredPreAnnounce
                /\ plan.diffToPreAnnounce =
                      plan.diffToShutdown - plan.configuredPreAnnounce

\* C6's case: less runway than the lead time, the task is due in 1 second.
C6_Witness ==
    /\ PlanBuilt
    /\ plan.diffToShutdown < plan.configuredPreAnnounce
    /\ Len(tasks) = 1
    /\ tasks[1].remaining = [s |-> 1, ms |-> 0]
    /\ tasks[1].preAnnounceSeconds = plan.diffToShutdown

\* C7: the delay of the pre-announce task plus the countdown it hands to the
\* host equals secondsUntilShutdown, so the host countdown ends at
\* nextShutdownAt, also in the collapsed case.
C7_CountdownEndsAtShutdown ==
    PlanBuilt =>
        plan.diffToPreAnnounce + plan.preAnnounceSeconds = plan.diffToShutdown

-----------------------------------------------------------------------------
(* Properties of the module's runs, under Spec.                            *)

\* The configuration fails validation: the time string is not three uint8
\* tokens, or everyDays is outside 1..365, or hour > 23, minute > 59 or
\* second > 59.
ConfigInvalid(cfg) ==
    LET tokens == Tokenize(cfg.Time, ":")
    IN  \/ Len(tokens) # 3
        \/ \E i \in 1..3 : ~StringToUint8(tokens[i]).has_value
        \/ cfg.EveryDays \notin 1..365
        \/ StringToUint8(tokens[1]).value > 23
        \/ StringToUint8(tokens[2]).value > 59
        \/ StringToUint8(tokens[3]).value > 59

\* C1: an Init whose configuration fails validation commits nothing: it
\* makes no call to CancelAll, ShutdownCancel, StartEvent or Schedule, and
\* the pending tasks, the host's shutdown state and the started events are
\* what they were before the call.
C1_FailedInitCommitsNothing ==
    [][(last'.op = "Init" /\ last'.cfg.Enabled /\ ConfigInvalid(last'.cfg)) =>
          /\ last'.calls = <<>>
          /\ tasks' = tasks
          /\ host' = host
          /\ events' = events]_vars

\* C2: the scheduler never holds more than one pending pre-announce task.
C2_AtMostOnePending == Len(tasks) <= 1

\* C2's case: an Init that scheduled its task while the task of an earlier
\* Init was still pending.
C2_Witness ==
    /\ last.op = "Init"
    /\ last.pendingBefore = 1
    /\ last.calls # <<>>
    /\ Len(tasks) = 1
    /\ tasks[1].plan = plan

\* C3: after an Init with the feature flag on and an invalid configuration
\* the module is Disabled, whatever it was before.
C3_InvalidConfigDisables ==
    (last.op = "Init" /\ last.cfg.Enabled /\ ConfigInvalid(last.cfg)) =>
        ~isEnableModule

\* C3's scenario: Time = "25:00:00" on an Armed module leaves it Disabled.
C3_Witness ==
    /\ last.op = "Init"
    /\ last.cfg.Enabled
    /\ last.cfg.Time = TimeString(25, 0, 0)
    /\ last.enabledBefore
    /\ ~isEnableModule

\* A remaining delay in milliseconds.
Millis(d) == d.s * IN_MILLISECONDS + d.ms

\* `after` is `before` with every delay shortened by exactly `diff`
\* milliseconds and the tasks whose delay ran out removed.
AdvancedBy(before, after, diff) ==
    /\ Len(after) =
          Cardinality({i \in 1..Len(before) : Millis(before[i].remaining) > diff})
    /\ \A i \in 1..Len(before) :
          Millis(before[i].remaining) > diff =>
              \E j \in 1..Len(after) :
                  /\ Millis(after[j].remaining) = Millis(before[i].remaining) - diff
                  /\ after[j].plan = before[i].plan

\* C4: while the module is Disabled, OnUpdate changes neither the pending
\* tasks (no delay advances, nothing fires) nor the host's shutdown state;
\* while it is Armed, OnUpdate advances the scheduler by exactly diff.
C4_UpdateOnlyWhileArmed ==
    [][last'.op = "OnUpdate" =>
          IF ~isEnableModule
          THEN /\ last'.calls = <<>>
               /\ tasks' = tasks
               /\ host' = host
          ELSE /\ Head(last'.calls) = Call("Update", <<last'.diff>>)
               /\ AdvancedBy(tasks, tasks', last'.diff)]_vars

\* C4's case: an OnUpdate on a Disabled module that has a task pending.
C4_Witness ==
    /\ last.op = "OnUpdate"
    /\ ~last.enabled
    /\ last.calls = <<>>
    /\ Len(tasks) = 1

-----------------------------------------------------------------------------
(* More properties of the calculators, under CalcSpec.                     *)

\* The triple a is lexicographically strictly greater than the triple b.
LexGreater(a, b) ==
    \/ a[1] > b[1]
    \/ (a[1] = b[1] /\ a[2] > b[2])
    \/ (a[1] = b[1] /\ a[2] = b[2] /\ a[3] > b[3])

\* C11: when now falls on the requested weekday, GetNextWeekdayTime returns
\* today at H:M:S if and only if (H, M, S) is lexicographically strictly
\* greater than now's (hour, minute, second); otherwise it returns the date
\* exactly 7 days later at H:M:S.
C11_SameWeekdayTodayOrNextWeek ==
    (CalledWith("GetNextWeekdayTime")
     /\ TimeBreakdown(input.nowTime).tm_wday = input.param) =>
        LET n == TimeBreakdown(input.nowTime)
            ahead == LexGreater(<<input.hour, input.minute, input.second>>,
                                <<n.tm_hour, n.tm_min, n.tm_sec>>)
        IN  /\ (result = TargetOn(Today)) <=> ahead
            /\ ~ahead => result = TargetOn(Today + 7)

\* C11's scenario: Monday, one hour before the target, gives today.
C11_Witness ==
    /\ CalledWith("GetNextWeekdayTime")
    /\ input.param = 1
    /\ TimeBreakdown(input.nowTime).tm_wday = 1
    /\ input.nowTime = TargetOn(Today) - HOUR
    /\ result = TargetOn(Today)

-----------------------------------------------------------------------------
(* More properties of the plan, under PlanSpec.                            *)

\* The hour, minute and second of a time string that parsed.
TimeOf(cfg) ==
    LET tokens == Tokenize(cfg.Time, ":")
    IN  [hour   |-> StringToUint8(tokens[1]).value,
         minute |-> StringToUint8(tokens[2]).value,
         second |-> StringToUint8(tokens[3]).value]

\* The plan of lines 119-203 for a configuration whose time string parsed.
PlanOf(cfg, nowTime) ==
    ShutdownPlan(nowTime, cfg.Weekday, cfg.EveryDays, TimeOf(cfg).hour,
                 TimeOf(cfg).minute, TimeOf(cfg).second, cfg.PreAnnounceSeconds)

\* The last handler was an Init with the feature flag on and a configuration
\* that passes validation.
ValidInit == last.op = "Init" /\ last.cfg.Enabled /\ ~ConfigInvalid(last.cfg)

\* C12: a configured PreAnnounce.Seconds above 86400 does not disable the
\* module: Init with an otherwise valid configuration ends enabled with its
\* task pending, and its plan is the plan for PreAnnounce.Seconds = 3600;
\* a value of 86400 or less is the one the plan uses.
C12_PreAnnounceClampedToHour ==
    ValidInit =>
        /\ isEnableModule
        /\ Len(tasks) = 1
        /\ IF last.cfg.PreAnnounceSeconds > DAY
           THEN plan = PlanOf([last.cfg EXCEPT !.PreAnnounceSeconds = HOUR],
                              last.nowTime)
           ELSE plan.configuredPreAnnounce = last.cfg.PreAnnounceSeconds

\* C12's case: 90000 seconds configured, the module is armed with one hour.
C12_Witness ==
    /\ ValidInit
    /\ last.cfg.PreAnnounceSeconds = 90000
    /\ isEnableModule
    /\ Len(tasks) = 1
    /\ plan.configuredPreAnnounce = HOUR
    /\ plan.preAnnounceSeconds = HOUR

\* C13: with a weekday in 0..6 the first occurrence is GetNextWeekdayTime's
\* and nextResetTime is the same for every EveryDays; with any other
\* weekday it is GetNextResetTime's with EveryDays, and the module stays
\* enabled when the rest of the configuration is valid.
C13_OneRecurrenceMode ==
    PlanBuilt =>
        LET cfg == last.cfg
            t == TimeOf(cfg)
        IN  IF cfg.Weekday \in 0..6
            THEN /\ plan.firstResetTime =
                       GetNextWeekdayTime(last.nowTime, cfg.Weekday,
                                          t.hour, t.minute, t.second)
                 /\ \A d \in {0, 1, 2, 366} :
                       PlanOf([cfg EXCEPT !.EveryDays = d], last.nowTime).nextResetTime
                           = plan.nextResetTime
            ELSE /\ plan.firstResetTime =
                       GetNextResetTime(last.nowTime, cfg.EveryDays,
                                        t.hour, t.minute, t.second)
                 /\ ~ConfigInvalid(cfg) => isEnableModule

\* C13's case: weekday 7 with EveryDays = 2 is planned in periodic mode, two
\* days ahead, and the module is enabled.
C13_Witness ==
    /\ PlanBuilt
    /\ last.cfg.Weekday = 7
    /\ last.cfg.EveryDays = 2
    /\ isEnableModule
    /\ plan.nextResetTime - plan.nowTime > DAY
    /\ plan.nextResetTime - plan.nowTime <= 2 * DAY

\* C14: in every plan 0 <= preAnnounceSeconds <= diffToShutdown and
\* 0 <= diffToPreAnnounce <= diffToShutdown as unsigned 32-bit values, and
\* the scheduled delay and the captured countdown are these values, none of
\* them a wrapped difference.
C14_NoWrappedDelay ==
    PlanBuilt =>
        /\ 0 <= plan.preAnnounceSeconds
        /\ plan.preAnnounceSeconds <= plan.diffToShutdown
        /\ 0 <= plan.diffToPreAnnounce
        /\ plan.diffToPreAnnounce <= plan.diffToShutdown
        /\ Len(tasks) = 1
        /\ tasks[1].remaining.s = plan.diffToPreAnnounce
        /\ tasks[1].remaining.s # FarFuture
        /\ tasks[1].preAnnounceSeconds = plan.preAnnounceSeconds

\* C14's case: the difference of line 195 wrapped below zero and the plan
\* holds 1 second and the remaining time instead.
C14_Witness ==
    /\ PlanBuilt
    /\ U32Sub(U32Sub(plan.nextResetTime, plan.configuredPreAnnounce),
              plan.nowTime) < 0
    /\ plan.diffToPreAnnounce = 1
    /\ plan.preAnnounceSeconds = plan.diffToShutdown
    /\ tasks[1].remaining.s = 1

\* C20: every plan of an Init with a valid configuration has
\* diffToShutdown >= 10, in weekly and in periodic mode.
C20_AtLeastTenSeconds ==
    (ValidInit /\ PlanBuilt) => plan.diffToShutdown >= 10

\* C20's case: periodic mode one second before the target, the plan is one
\* day and one second ahead.
C20_Witness ==
    /\ ValidInit
    /\ PlanBuilt
    /\ ~(plan.weekday \in 0..6)
    /\ plan.restartDays = 1
    /\ plan.firstResetTime - plan.nowTime = 1
    /\ plan.diffToShutdown = DAY + 1

-----------------------------------------------------------------------------
(* More properties of the module's runs, under Spec.                       *)

\* C15: the plan of an Init is a function of its configuration and its
\* time(nullptr) alone: after any earlier Init and OnUpdate calls, with any
\* tasks pending, it is the plan a first call computes from the same two.
C15_PlanDeterministic ==
    PlanBuilt => plan = PlanOf(last.cfg, last.nowTime)

\* C15's case: a plan built by an Init that found the module enabled, the
\* task of an earlier Init pending and events of an earlier configuration
\* started.
C15_Witness ==
    /\ PlanBuilt
    /\ last.enabledBefore
    /\ last.pendingBefore = 1
    /\ last.cfg.StartEvents = <<>>
    /\ events # {}
    /\ plan.nowTime = last.nowTime

\* The elapsed time since the last Init has reached `seconds`.
Reached(seconds) == since.elapsed.s >= seconds

\* C16: while the module is enabled after an Init, the task of that Init is
\* pending and has not fired as long as the time elapsed over the OnUpdate
\* calls is below diffToPreAnnounce; from the first OnUpdate at which the
\* elapsed time reaches it, the task has fired exactly once and is no longer
\* pending.
C16_FiresExactlyOnce ==
    isEnableModule =>
        IF ticks > 0 /\ Reached(plan.diffToPreAnnounce)
        THEN /\ since.fired = 1
             /\ tasks = <<>>
        ELSE /\ since.fired = 0
             /\ Len(tasks) = 1
             /\ tasks[1].plan = plan

\* C16's case: a delay of one second, three OnUpdate calls of 500 ms: the
\* task fired once, on the second, and the third fired nothing.
C16_Witness ==
    /\ isEnableModule
    /\ plan.diffToPreAnnounce = 1
    /\ ticks = 3
    /\ since.elapsed = [s |-> 1, ms |-> 500]
    /\ since.fired = 1
    /\ tasks = <<>>
    /\ CallsOf(last.calls, "ShutdownServ") = 0

\* The mask of the configured action.
MaskOfAction(action) ==
    IF action = "shutdown" THEN "SHUTDOWN_MASK_IDLE" ELSE "SHUTDOWN_MASK_RESTART"

\* The last handler made the callback's calls.
Fired == last.op \in {"Init", "OnUpdate"} /\ CallsOf(last.calls, "ShutdownServ") > 0

\* C17: Init never calls ShutdownServ; an OnUpdate in which the task fires
\* calls SendServerMessage and then ShutdownServ, once each, with the
\* preAnnounceSeconds of the plan of the Init that scheduled the task, the
\* idle mask iff that Init's Action was "shutdown" (else the restart mask)
\* and SHUTDOWN_EXIT_CODE, and the host counts down with these.
C17_FireCallsShutdownServOnce ==
    Fired =>
        LET mask == MaskOfAction(since.armedCfg.Action)
        IN  /\ last.op = "OnUpdate"
            /\ last.calls =
                  <<Call("Update", <<last.diff>>),
                    Call("SendServerMessage", <<plan.preAnnounceSeconds>>),
                    Call("ShutdownServ", <<plan.preAnnounceSeconds, mask,
                                           "SHUTDOWN_EXIT_CODE">>)>>
            /\ host = [inProgress |-> TRUE, delay |-> plan.preAnnounceSeconds,
                       mask |-> mask, exitCode |-> "SHUTDOWN_EXIT_CODE"]

\* C17's case: the task of a configuration with Action = "shutdown" fired
\* and the host counts down with the idle mask.
C17_Witness ==
    /\ Fired
    /\ since.armedCfg.Action = "shutdown"
    /\ host.inProgress
    /\ host.mask = "SHUTDOWN_MASK_IDLE"
    /\ host.delay = plan.preAnnounceSeconds

\* C18: whenever the callback fires, the module is enabled and the task that
\* fires is the only pending one, scheduled with the plan of the most recent
\* Init that reached Schedule.
C18_NoStaleFire ==
    [][CallsOf(last'.calls, "ShutdownServ") > 0 =>
          /\ isEnableModule
          /\ Len(tasks) = 1
          /\ tasks[1].plan = plan
          /\ tasks' = <<>>
          /\ host'.delay = plan.preAnnounceSeconds]_vars

\* C18's case: the callback fires after a second configuration superseded
\* an armed one: events of the first configuration are started, the
\* countdown handed to the host is the one of the last plan.
C18_Witness ==
    /\ Fired
    /\ since.armedCfg.StartEvents = <<>>
    /\ events # {}
    /\ host.delay = plan.preAnnounceSeconds
    /\ since.fired = 1

\* The position of the first call of `fn` among the calls, 0 if none.
FirstCall(calls, fn) ==
    IF CallsOf(calls, fn) = 0 THEN 0
    ELSE CHOOSE i \in 1..Len(calls) :
            /\ calls[i].fn = fn
            /\ \A j \in 1..(i - 1) : calls[j].fn # fn

\* C19: a pending task and a host shutdown in progress never coexist, and an
\* Init that calls Schedule has called ShutdownCancel before it.
C19_NoTaskDuringShutdown ==
    /\ ~(Len(tasks) >= 1 /\ host.inProgress)
    /\ (last.op = "Init" /\ CallsOf(last.calls, "Schedule") > 0) =>
          /\ FirstCall(last.calls, "ShutdownCancel") > 0
          /\ FirstCall(last.calls, "ShutdownCancel") < FirstCall(last.calls, "Schedule")

\* C19's case: an Init during the host countdown the module started; it
\* cancelled the countdown and scheduled its task.
C19_Witness ==
    /\ last.op = "Init"
    /\ last.shutdownBefore
    /\ Len(tasks) = 1
    /\ ~host.inProgress

=============================================================================
